---- MODULE Spec2Model ----
(***************************************************************************)
(* Model of src/process.py: the batch pass that lists the Firestore        *)
(* projects whose status is "processing" and drives each one through       *)
(* background removal, object detection, layer synthesis, the three-step   *)
(* Backblaze upload and the final status write.                            *)
(*                                                                         *)
(* Python dicts are functions whose DOMAIN is the set of keys present.     *)
(* None, '' and [] are all falsy in the places the code tests them, so     *)
(* an absent layer_urls is <<>> and an absent error is "".                 *)
(* Detection scores are carried as integers (percent); the code only       *)
(* copies them.                                                            *)
(***************************************************************************)
EXTENDS Integers, Sequences, FiniteSets, TLC

VARIABLES
    pc,          \* position of the script
    exitCode,    \* -1 while running, else the process exit code
    store,       \* Firestore collection 'projects': document id -> dict
    projects,    \* the listing (src/process.py:60)
    i,           \* loop index of the current project (1-based, line 215)
    bg_removed,  \* result of remove_background for the current project
    objects,     \* result of detect_objects for the current project
    layers,      \* result of create_layers for the current project
    layer_file,  \* manifest built at lines 243-248
    b2_url,      \* result of upload_to_backblaze
    err,         \* str(e) of the exception raised inside the item's try block
    calls,       \* history: every remote call / stage, in program order
    writes,      \* history: every status write handed to Firestore
    uploads,     \* history: every successful put
    bucket,      \* Backblaze bucket: file name -> content
    faults       \* number of failing remote responses so far

vars == <<pc, exitCode, store, projects, i, bg_removed, objects, layers,
          layer_file, b2_url, err, calls, writes, uploads, bucket, faults>>

-----------------------------------------------------------------------------
(* Bounds *)

\* Largest number of documents in the collection.
MaxItems == 3

\* Largest number of disturbances in one run: failing remote responses and
\* writes of another client to a record the run is working on.
MaxFaults == 1

\* Longest detection list handed to create_layers in SpecLayers.
MaxDet == 11

-----------------------------------------------------------------------------
(* Program constants *)

\* objects[:10], src/process.py:135
MaxLayers == 10

B2_BUCKET_ID == "bkt"

SourceUrl == "https://x/img.png"

DocIds == <<"p1", "p2", "p3", "p4", "p5">>

\* str(i+1) of the f-string at line 140
NumStr == <<"1", "2", "3", "4", "5", "6", "7", "8", "9", "10", "11", "12", "13", "14">>

NoDict == [k \in {} |-> ""]

\* dict.get(key, default)
Get(d, k, default) == IF k \in DOMAIN d THEN d[k] ELSE default

-----------------------------------------------------------------------------
(* Detection values *)

\* One entry of a detection response: a JSON object (isdict) with optional
\* label / score keys, or any other JSON value.
DictEntry(d) == [isdict |-> TRUE, d |-> d]

NonDictEntry == [isdict |-> FALSE, d |-> NoDict]

Cat == DictEntry([label |-> "cat", score |-> 90])

Dog == DictEntry([label |-> "dog", score |-> 50])

NoLabel == DictEntry([score |-> 70])

NoScore == DictEntry([label |-> "bird"])

EntryPool == <<Cat, Dog, NoLabel, NoScore, NonDictEntry>>

\* detect_objects returned None (line 121), a JSON list, or another JSON value
\* (truthy, e.g. an error object, or falsy, e.g. {}).
ObjNone == [tag |-> "none", truthy |-> FALSE, items |-> <<>>]

ObjList(s) == [tag |-> "list", truthy |-> Len(s) > 0, items |-> s]

ObjOther(t) == [tag |-> "other", truthy |-> t, items |-> <<>>]

-----------------------------------------------------------------------------
(* create_layers, src/process.py:123-146 *)

BackgroundLayer == [name |-> "Background", type |-> "background"]

\* The slice of line 135 left out.
Truncate_nocap(s) == s

\* objects[:10]
Truncate(s) == SubSeq(s, 1, IF Len(s) < MaxLayers THEN Len(s) ELSE MaxLayers)

EntryLabel(obj) == IF obj.isdict THEN Get(obj.d, "label", "Object") ELSE "Object"

EntryScore(obj) == IF obj.isdict THEN Get(obj.d, "score", 0) ELSE 0

\* k is the 1-based position, i.e. i+1 of enumerate at line 135
ObjectLayer(k, obj) ==
    [name |-> "Layer " \o NumStr[k] \o " - " \o EntryLabel(obj),
     type |-> "object",
     confidence |-> EntryScore(obj)]

ObjectLayers(s) == [k \in 1..Len(s) |-> ObjectLayer(k, s[k])]

\* The background layer appended only when no object layer is.
create_layers_nobg(objs) ==
    IF objs.truthy /\ objs.tag = "list" /\ Len(objs.items) > 0
    THEN <<BackgroundLayer>> \o ObjectLayers(Truncate(objs.items))
    ELSE <<>>

create_layers(objs) ==
    IF objs.truthy /\ objs.tag = "list" /\ Len(objs.items) > 0
    THEN <<BackgroundLayer>> \o ObjectLayers(Truncate(objs.items))
    ELSE <<BackgroundLayer>>

-----------------------------------------------------------------------------
(* Per-project helpers of the processing loop *)

\* line 216
project_id(p) == Get(p, "projectId", "unknown")

\* The default of line 216 copied to line 217.
image_url_unknown(p) == Get(p, "originalImageUrl", "unknown")

\* line 217
image_url(p) == Get(p, "originalImageUrl", "")

\* A file name that changes with the manifest.
file_name_versioned(p) ==
    "layers/" \o Get(p, "userId", "unknown") \o "/" \o Get(p, "projectId", "unknown")
    \o "/layers-" \o NumStr[Len(layers)] \o ".json"

\* f-string at line 254
file_name(p) ==
    "layers/" \o Get(p, "userId", "unknown") \o "/" \o project_id(p) \o "/layers.json"

\* f-string at line 185
download_url(fn) == "https://f000.backblazeb2.com/file/" \o B2_BUCKET_ID \o "/" \o fn

\* dict passed to json.dumps at lines 243-248
LayerFile(p, ls) ==
    [format |-> Get(p, "format", "tiff"),
     layersCount |-> Len(ls),
     layers |-> ls,
     processedAt |-> "now"]

\* An update_firestore without the test of line 201: the result fields are
\* written whatever the status.
UpdateData_unguarded(status, layer_urls, error) ==
    [layerUrls |-> layer_urls,
     layersCount |-> Len(layer_urls),
     completedAt |-> "SERVER_TIMESTAMP"]
    @@ (IF error # "" THEN [error |-> error] ELSE NoDict)
    @@ [status |-> status, updatedAt |-> "SERVER_TIMESTAMP"]

\* dict built by update_firestore, lines 196-207
UpdateData(status, layer_urls, error) ==
    (IF layer_urls # <<>>
     THEN [layerUrls |-> layer_urls,
           layersCount |-> Len(layer_urls),
           completedAt |-> "SERVER_TIMESTAMP"]
     ELSE NoDict)
    @@ (IF error # "" THEN [error |-> error] ELSE NoDict)
    @@ [status |-> status, updatedAt |-> "SERVER_TIMESTAMP"]

\* layer_urls = [b2_url], line 260
LayerUrls(url) == <<url>>

\* Messages of the exceptions raised inside the item's try block
ErrNoUrl == "No image URL found"

ErrBg == "Background removal failed"

ErrUpload == "Upload to Backblaze failed"

\* A failed status write that escapes update_firestore and ends the script
\* through the handler at lines 281-283.
AfterUpdate_reraise(ok, k, n) == IF ~ok THEN "exit" ELSE IF k < n THEN "start" ELSE "done"

\* A failed status write that escapes update_firestore into the project's own
\* except branch, which writes again.
AfterUpdate_rewrite(ok, k, n) == IF ~ok THEN "except" ELSE IF k < n THEN "start" ELSE "done"

\* Where the script goes once update_firestore has returned for project k of
\* n; the except at lines 211-212 swallows a failed write, so ok is not read.
AfterUpdate(ok, k, n) == IF k < n THEN "start" ELSE "done"

\* A failing remote response is allowed while the fault budget lasts.
Faulty(ok) == ok \/ faults < MaxFaults

CountFault(ok) == faults' = IF ok THEN faults ELSE faults + 1

\* One entry of the call history; res is "ok", "fail", "empty" (a successful
\* response without bytes) or "invalid" (the URL check of line 224).
Call(op, res) == [item |-> i, op |-> op, res |-> res]

-----------------------------------------------------------------------------
(* Initial state: the collection as some earlier writer left it *)

FullDoc(id) ==
    [projectId |-> id, userId |-> "u1", originalImageUrl |-> SourceUrl,
     format |-> "tiff", status |-> "processing"]

IdIndex(d) == CHOOSE k \in 1..Len(DocIds) : DocIds[k] = d

\* A document without a usable image URL: the field is missing or, in every
\* second document, present and empty.
NoUrlDoc(id) ==
    IF IdIndex(id) % 2 = 1
    THEN [projectId |-> id, userId |-> "u1", status |-> "processing"]
    ELSE [projectId |-> id, userId |-> "u1", originalImageUrl |-> "",
          status |-> "processing"]

\* A document without projectId, userId and format.
NoIdsDoc(id) == [originalImageUrl |-> SourceUrl, status |-> "processing"]

Templates == {"full", "nourl", "noids"}

MakeDoc(t, id) ==
    CASE t = "full" -> FullDoc(id)
      [] t = "nourl" -> NoUrlDoc(id)
      [] t = "noids" -> NoIdsDoc(id)

StoresOfSize(n) ==
    { [d \in {DocIds[k] : k \in 1..n} |-> MakeDoc(f[IdIndex(d)], d)] :
        f \in [1..n -> Templates] }

InitStores == UNION { StoresOfSize(n) : n \in 0..MaxItems }

ResetLocals ==
    /\ bg_removed' = "unset"
    /\ objects' = ObjNone
    /\ layers' = <<>>
    /\ layer_file' = NoDict
    /\ b2_url' = ""
    /\ err' = ""

Init ==
    /\ pc = "startup"
    /\ exitCode = -1
    /\ store \in InitStores
    /\ projects = <<>>
    /\ i = 0
    /\ bg_removed = "unset"
    /\ objects = ObjNone
    /\ layers = <<>>
    /\ layer_file = NoDict
    /\ b2_url = ""
    /\ err = ""
    /\ calls = <<>>
    /\ writes = <<>>
    /\ uploads = <<>>
    /\ bucket = NoDict
    /\ faults = 0

-----------------------------------------------------------------------------
(* Startup and listing, src/process.py:26-68 *)

\* A startup that goes on to the listing whatever is missing.
ExitAfterStartup_ignored(cfg) == -1

\* The exit code the startup ends the process with, -1 when the script goes
\* on: a missing credential or secret raises (lines 32, 37, 50) and the
\* handler at lines 281-283 exits 1.
ExitAfterStartup(cfg) == IF cfg THEN -1 ELSE 1

\* lines 29-53: credentials and the four secrets
Startup ==
    /\ pc = "startup"
    /\ \E cfg \in BOOLEAN :
         /\ calls' = Append(calls, [item |-> 0, op |-> "startup",
                                    res |-> IF cfg THEN "ok" ELSE "fail"])
         /\ exitCode' = ExitAfterStartup(cfg)
         /\ pc' = IF ExitAfterStartup(cfg) = -1 THEN "list" ELSE "exit"
    /\ UNCHANGED <<store, projects, i, bg_removed, objects, layers, layer_file,
                   b2_url, err, writes, uploads, bucket, faults>>

IsProcessing(d) == d \in DOMAIN store /\ Get(store[d], "status", "") = "processing"

\* lines 59-60: where('status', '==', 'processing').stream(), doc.to_dict()
Listed ==
    LET ids == SelectSeq(DocIds, IsProcessing)
    IN [k \in 1..Len(ids) |-> store[ids[k]]]

\* An empty listing treated as a failed one.
ExitAfterListing_emptyfatal(ok, n) == IF ~ok \/ n = 0 THEN 1 ELSE -1

\* The exit code the listing ends the process with, -1 when the script goes
\* on. Lines 62-68: sys.exit(1) when the query raised, sys.exit(0) when it
\* found nothing (SystemExit is not an Exception: the handler at line 281
\* lets it pass).
ExitAfterListing(ok, n) == IF ~ok THEN 1 ELSE IF n = 0 THEN 0 ELSE -1

\* lines 58-68
Listing ==
    /\ pc = "list"
    /\ \E ok \in BOOLEAN :
         LET found == IF ok THEN Listed ELSE <<>>
             code == ExitAfterListing(ok, Len(found))
         IN /\ calls' = Append(calls, [item |-> 0, op |-> "list",
                                       res |-> IF ok THEN "ok" ELSE "fail"])
            /\ projects' = found
            /\ exitCode' = code
            /\ pc' = IF code = -1 THEN "start" ELSE "exit"
            /\ i' = IF code = -1 THEN 1 ELSE i
    /\ UNCHANGED <<store, bg_removed, objects, layers, layer_file, b2_url, err,
                   writes, uploads, bucket, faults>>

-----------------------------------------------------------------------------
(* The per-project loop, src/process.py:215-274 *)

\* Successful detection responses offered to the pipeline.
DetResponses == {ObjList(<<Cat, Dog>>)}

\* lines 216-225: read the ids, require an image URL
ValidateItem ==
    /\ pc = "start"
    /\ calls' = Append(calls, Call("start", IF image_url(projects[i]) = "" THEN "invalid" ELSE "ok"))
    /\ IF image_url(projects[i]) = ""
       THEN /\ err' = ErrNoUrl
            /\ pc' = "except"
       ELSE /\ pc' = "rmbg"
            /\ UNCHANGED err
    /\ UNCHANGED <<exitCode, store, projects, i, bg_removed, objects, layers,
                   layer_file, b2_url, writes, uploads, bucket, faults>>

\* How a call of remove_background / detect_objects can end: the fetch of the
\* source image (lines 95, 112) raised, the post raised (transport error,
\* timeout, raise_for_status, unparsable body), the post returned an empty
\* body, or it returned a usable body.
RmbgEnds == {"fetch_fail", "post_fail", "empty", "bytes"}

DetectEnds == {"fetch_fail", "post_fail", "ok"}

\* An inference function that posts a second time when the first post failed.
InferenceCalls_retry(op, end) ==
    IF end = "fetch_fail"
    THEN <<Call("fetch", "fail")>>
    ELSE IF end = "post_fail"
    THEN <<Call("fetch", "ok"), Call(op, "fail"), Call(op, "fail")>>
    ELSE <<Call("fetch", "ok"), Call(op, IF end = "empty" THEN "empty" ELSE "ok")>>

\* The outbound calls one inference function makes: the fetch is evaluated
\* first, as an argument of requests.post, and the post only if it returned.
InferenceCalls(op, end) ==
    IF end = "fetch_fail"
    THEN <<Call("fetch", "fail")>>
    ELSE <<Call("fetch", "ok"),
           Call(op, IF end = "post_fail" THEN "fail"
                    ELSE IF end = "empty" THEN "empty" ELSE "ok")>>

\* A remove_background without raise_for_status: whatever the endpoint
\* answered is taken for the image.
BgResult_nostatus(end) ==
    IF end = "fetch_fail" THEN "none"
    ELSE IF end = "empty" THEN "" ELSE "bytes"

\* remove_background, lines 88-103: response.content, or None after an exception
BgResult(end) ==
    IF end \in {"fetch_fail", "post_fail"} THEN "none"
    ELSE IF end = "empty" THEN "" ELSE "bytes"

\* The test of line 230 written as "is None".
BgMissing_isnone(bg) == bg = "none"

\* line 230: if not bg_removed
BgMissing(bg) == bg = "none" \/ bg = ""

\* A failed background removal that goes back to the head of the loop body
\* without the status write.
AfterBg_restart(bg) == IF BgMissing(bg) THEN "start" ELSE "detect"

\* Where the loop goes after remove_background, lines 230-231
AfterBg(bg) == IF BgMissing(bg) THEN "except" ELSE "detect"

\* lines 229-231
RemoveBackground ==
    /\ pc = "rmbg"
    /\ \E end \in RmbgEnds :
         /\ Faulty(end = "bytes")
         /\ CountFault(end = "bytes")
         /\ calls' = calls \o InferenceCalls("remove_background", end)
         /\ bg_removed' = BgResult(end)
         /\ pc' = AfterBg(BgResult(end))
         /\ err' = IF AfterBg(BgResult(end)) = "except" THEN ErrBg ELSE err
    /\ UNCHANGED <<exitCode, store, projects, i, objects, layers, layer_file,
                   b2_url, writes, uploads, bucket>>

\* A None from detect_objects treated like a None from remove_background.
AfterDetect_fatal(objs) == IF objs.tag = "none" THEN "except" ELSE "layers"

\* Where the loop goes after detect_objects: line 235 is followed by line 239
\* whatever was returned, None included.
AfterDetect(objs) == "layers"

\* detect_objects, lines 105-121, called at line 235
DetectObjects ==
    /\ pc = "detect"
    /\ \E end \in DetectEnds :
         /\ Faulty(end = "ok")
         /\ CountFault(end = "ok")
         /\ calls' = calls \o InferenceCalls("detect_objects", end)
         /\ IF end = "ok" THEN objects' \in DetResponses ELSE objects' = ObjNone
         /\ pc' = AfterDetect(objects')
    /\ UNCHANGED <<exitCode, store, projects, i, bg_removed, layers, layer_file,
                   b2_url, err, writes, uploads, bucket>>

\* lines 239-248: create_layers, then the manifest
CreateLayers ==
    /\ pc = "layers"
    /\ calls' = Append(calls, Call("create_layers", "ok"))
    /\ layers' = create_layers(objects)
    /\ layer_file' = LayerFile(projects[i], create_layers(objects))
    /\ pc' = "upload"
    /\ UNCHANGED <<exitCode, store, projects, i, bg_removed, objects, b2_url, err,
                   writes, uploads, bucket, faults>>

\* How a call of upload_to_backblaze can end: one of the three requests
\* failed (caught at lines 189-191, None returned) or all three succeeded.
UploadEnds == {"auth_fail", "url_fail", "put_fail", "ok"}

\* An upload that keeps the authorization of the first project's upload and
\* does not authorize again.
UploadCalls_cached(end) ==
    LET auth == IF i = 1
                THEN <<Call("authorize", IF end = "auth_fail" THEN "fail" ELSE "ok")>>
                ELSE <<>>
    IN CASE end = "auth_fail" -> auth
         [] end = "url_fail" -> auth \o <<Call("get_upload_url", "fail")>>
         [] end = "put_fail" -> auth \o <<Call("get_upload_url", "ok"),
                                          Call("put", "fail")>>
         [] end = "ok" -> auth \o <<Call("get_upload_url", "ok"), Call("put", "ok")>>

\* The requests one upload makes, lines 152, 161, 172: each only after the
\* one before it returned successfully.
UploadCalls(end) ==
    CASE end = "auth_fail" -> <<Call("authorize", "fail")>>
      [] end = "url_fail" -> <<Call("authorize", "ok"), Call("get_upload_url", "fail")>>
      [] end = "put_fail" -> <<Call("authorize", "ok"), Call("get_upload_url", "ok"),
                               Call("put", "fail")>>
      [] end = "ok" -> <<Call("authorize", "ok"), Call("get_upload_url", "ok"),
                         Call("put", "ok")>>

\* An upload that reports its locator although a request failed.
UploadResult_unchecked(end, fn) == download_url(fn)

\* Return value of upload_to_backblaze, lines 188 and 191 (None is "")
UploadResult(end, fn) == IF end = "ok" THEN download_url(fn) ELSE ""

\* upload_to_backblaze, lines 148-191, called at lines 252-260.
\* A put that did not answer successfully is taken not to have stored the file.
UploadToBackblaze ==
    /\ pc = "upload"
    /\ \E end \in UploadEnds :
         LET fn == file_name(projects[i])
             url == UploadResult(end, fn)
         IN /\ Faulty(end = "ok")
            /\ CountFault(end = "ok")
            /\ calls' = calls \o UploadCalls(end)
            /\ b2_url' = url
            /\ IF end = "ok"
               THEN /\ bucket' = (fn :> layer_file) @@ bucket
                    /\ uploads' = Append(uploads,
                           [item |-> i, file_name |-> fn, content |-> layer_file,
                            url |-> url])
               ELSE UNCHANGED <<bucket, uploads>>
            /\ IF url = ""
               THEN /\ err' = ErrUpload
                    /\ pc' = "except"
               ELSE /\ pc' = "update"
                    /\ UNCHANGED err
    /\ UNCHANGED <<exitCode, store, projects, i, bg_removed, objects, layers,
                   layer_file, writes>>

\* update_firestore, lines 193-212, followed by the loop's next iteration or
\* the end of the script (lines 276-279, exit code 0).
\* The update carries no precondition on the record it finds (line 205).
\* before: the status of the record when the write arrived.
\* net: the store answered; update() also raises when there is no document
\* under pid, whatever the network does. A write that raised is taken not to
\* have been applied. The locals are cleared when the loop moves on: the next
\* iteration assigns each of them before reading it.
UpdateFirestore(pid, status, layer_urls, error) ==
    \E net \in BOOLEAN :
      LET data == UpdateData(status, layer_urls, error)
          applied == net /\ pid \in DOMAIN store
          next == AfterUpdate(applied, i, Len(projects))
      IN /\ Faulty(net)
         /\ pid \notin DOMAIN store => net
         /\ CountFault(net)
         /\ store' = IF applied THEN [store EXCEPT ![pid] = data @@ @] ELSE store
         /\ writes' = Append(writes,
                [item |-> i, doc |-> pid, data |-> data, ok |-> applied,
                 before |-> IF pid \in DOMAIN store
                            THEN Get(store[pid], "status", "") ELSE ""])
         /\ calls' = Append(calls, Call("update", IF applied THEN "ok" ELSE "fail"))
         /\ pc' = next
         \* end of script: exit code 0; an exception that left the loop would
         \* reach the handler at lines 281-283 and exit with 1
         /\ exitCode' = IF next = "done" THEN 0 ELSE IF next = "exit" THEN 1 ELSE exitCode
         /\ i' = IF next = "start" THEN i + 1 ELSE i
         /\ ResetLocals
         /\ UNCHANGED <<projects, uploads, bucket>>

\* lines 262-270
UpdateCompleted ==
    /\ pc = "update"
    /\ UpdateFirestore(project_id(projects[i]), "completed", LayerUrls(b2_url), "")

\* lines 272-274
HandleException ==
    /\ pc = "except"
    /\ UpdateFirestore(project_id(projects[i]), "failed", <<>>, err)

\* The collection belongs to the application, not to this script: between
\* the listing (line 59) and the status write (line 205) another client can
\* move the record of the project in hand to another status. Its write is
\* followed here at the point where it meets the script's own, just before
\* update_firestore, and is counted as a disturbance.
ForeignStatuses == {"queued", "completed", "failed"}

ForeignWrite ==
    /\ pc \in {"update", "except"}
    /\ faults < MaxFaults
    /\ project_id(projects[i]) \in DOMAIN store
    /\ \E st \in ForeignStatuses :
         /\ store' = [store EXCEPT ![project_id(projects[i])].status = st]
         /\ calls' = Append(calls, [item |-> 0, op |-> "foreign",
                                    res |-> project_id(projects[i])])
    /\ faults' = faults + 1
    /\ UNCHANGED <<pc, exitCode, projects, i, bg_removed, objects, layers,
                   layer_file, b2_url, err, writes, uploads, bucket>>

Next ==
    \/ Startup
    \/ Listing
    \/ ValidateItem
    \/ RemoveBackground
    \/ DetectObjects
    \/ CreateLayers
    \/ UploadToBackblaze
    \/ UpdateCompleted
    \/ HandleException
    \/ ForeignWrite

Spec == Init /\ [][Next]_vars

-----------------------------------------------------------------------------
(* create_layers on its own: every detection value of the bounded input set *)

PoolSize == Len(EntryPool)

\* The list of n entries that walks round EntryPool starting after entry sh
Rot(n, sh) == [k \in 1..n |-> EntryPool[((k + sh) % PoolSize) + 1]]

ShortLists == {<<>>} \cup {<<EntryPool[a]>> : a \in 1..PoolSize}
              \cup {<<EntryPool[a], EntryPool[b]>> : a, b \in 1..PoolSize}

LongLists == {Rot(n, sh) : n \in 3..MaxDet, sh \in 0..(PoolSize - 1)}

\* Lists of entries that are not JSON objects
NonDictLists == {[k \in 1..n |-> NonDictEntry] : n \in 1..MaxDet}

DetInputs ==
    {ObjNone, ObjOther(TRUE), ObjOther(FALSE)}
    \cup {ObjList(s) : s \in ShortLists \cup LongLists \cup NonDictLists}

InitLayers ==
    /\ pc = "layers_only"
    /\ exitCode = -1
    /\ store = NoDict
    /\ projects = <<>>
    /\ i = 0
    /\ bg_removed = "unset"
    /\ objects \in DetInputs
    /\ layers = <<>>
    /\ layer_file = NoDict
    /\ b2_url = ""
    /\ err = ""
    /\ calls = <<>>
    /\ writes = <<>>
    /\ uploads = <<>>
    /\ bucket = NoDict
    /\ faults = 0

\* line 239 alone
SynthesizeOnly ==
    /\ pc = "layers_only"
    /\ layers' = create_layers(objects)
    /\ pc' = "layers_done"
    /\ UNCHANGED <<exitCode, store, projects, i, bg_removed, objects, layer_file,
                   b2_url, err, calls, writes, uploads, bucket, faults>>

NextLayers == SynthesizeOnly

SpecLayers == InitLayers /\ [][NextLayers]_vars

-----------------------------------------------------------------------------
(* Reading the histories *)

ItemCalls(k) == SelectSeq(calls, LAMBDA c : c.item = k)

ItemWrites(k) == SelectSeq(writes, LAMBDA w : w.item = k)

ItemUploads(k) == SelectSeq(uploads, LAMBDA u : u.item = k)

HasCall(k, op, res) ==
    \E j \in 1..Len(calls) :
        calls[j].item = k /\ calls[j].op = op /\ calls[j].res = res

\* The n-th call made for project k is op, with result res.
NthCall(k, n, op, res) ==
    LET ic == ItemCalls(k)
    IN Len(ic) >= n /\ ic[n].op = op /\ ic[n].res = res

HasOp(k, op) == \E j \in 1..Len(calls) : calls[j].item = k /\ calls[j].op = op

Attempted(k) == HasOp(k, "start")

\* Project k has left the loop body: its status write has returned.
Finished(k) == k < i \/ pc = "done"

RunEnded == pc \in {"done", "exit"}

-----------------------------------------------------------------------------
(* C1 *)

\* C1: failure isolation. Whatever fails inside project k (URL check,
\* background removal, detection, one of the three upload requests, the status
\* write itself), the loop goes on: every project up to the current one has
\* been attempted, the script is never stuck before its end, and once a
\* non-empty listing has been read the run can only end normally (exit code
\* 0) with every listed project attempted and its status write handed to the
\* store, accepted or not.
C1_FailureIsolation ==
    /\ i <= Len(projects)
    /\ \A k \in 1..Len(projects) :
         (k < i \/ (k = i /\ pc # "start")) => Attempted(k)
    /\ ~RunEnded => ENABLED Next
    /\ (RunEnded /\ projects # <<>>) =>
         /\ pc = "done"
         /\ exitCode = 0
         /\ \A k \in 1..Len(projects) :
              Attempted(k) /\ Len(ItemWrites(k)) >= 1

\* Project 1 failed its URL check and then lost its failed-status write, and
\* project 2 was still processed to a completed record.
C1_Witness ==
    /\ pc = "done"
    /\ Len(projects) >= 2
    /\ HasCall(1, "start", "invalid")
    /\ HasCall(1, "update", "fail")
    /\ HasCall(2, "put", "ok")
    /\ HasCall(2, "update", "ok")

-----------------------------------------------------------------------------
(* C2 *)

\* Status writes of project k that the store applied
EffectiveWrites(k) ==
    {j \in 1..Len(writes) :
        /\ writes[j].item = k
        /\ writes[j].ok
        /\ writes[j].data.status \in {"completed", "failed"}}

\* C2 as stated: at the end of the run every listed project has exactly one
\* effective status mutation (never zero, never two), also when a status
\* write can fail.
C2_ExactlyOneEffective ==
    pc = "done" =>
        \A k \in 1..Len(projects) : Cardinality(EffectiveWrites(k)) = 1

\* C2 as amended: every listed project gets exactly one status write, to the
\* document named by its projectId, setting completed or failed; the store
\* applies at most one mutation for it; an applied write is what the record
\* shows, and a write the store did not apply (store error, or no document
\* under that id) leaves the record as listed, in processing, unless another
\* client wrote to it.
C2_OneWritePerItem ==
    \A k \in 1..Len(projects) :
        /\ Len(ItemWrites(k)) <= 1
        /\ Cardinality(EffectiveWrites(k)) <= 1
        /\ Finished(k) =>
             LET ws == ItemWrites(k)
             IN /\ Len(ws) = 1
                /\ ws[1].data.status \in {"completed", "failed"}
                /\ ws[1].doc = Get(projects[k], "projectId", "unknown")
                /\ ws[1].ok =>
                     /\ ws[1].doc \in DOMAIN store
                     /\ store[ws[1].doc].status = ws[1].data.status
                /\ (~ws[1].ok /\ ws[1].doc \in DOMAIN store
                      /\ ~HasCall(0, "foreign", ws[1].doc)) =>
                     store[ws[1].doc] = projects[k]

\* The run ended with one project whose only status write was lost, its
\* record still in processing, next to a project whose write was applied.
C2_Witness ==
    /\ pc = "done"
    /\ \E k, m \in 1..Len(projects) :
         /\ Len(ItemWrites(k)) = 1
         /\ ~ItemWrites(k)[1].ok
         /\ ItemWrites(k)[1].doc \in DOMAIN store
         /\ store[ItemWrites(k)[1].doc].status = "processing"
         /\ Cardinality(EffectiveWrites(m)) = 1

-----------------------------------------------------------------------------
(* C3 *)

RemoteOps ==
    {"fetch", "remove_background", "detect_objects", "authorize",
     "get_upload_url", "put"}

UploadOps == {"authorize", "get_upload_url", "put"}

\* Every remote call made for project k succeeded and returned what it should.
AllRemoteOk(k) ==
    \A j \in 1..Len(calls) :
        (calls[j].item = k /\ calls[j].op \in RemoteOps) => calls[j].res = "ok"

\* Project k failed at the upload step and nowhere before it.
FailedAtUpload(k) ==
    /\ HasCall(k, "start", "ok")
    /\ \E j \in 1..Len(calls) :
         calls[j].item = k /\ calls[j].op \in UploadOps /\ calls[j].res = "fail"
    /\ \A j \in 1..Len(calls) :
         (calls[j].item = k /\ calls[j].op \in RemoteOps \ UploadOps)
            => calls[j].res = "ok"

\* Project k is the only one of the batch with a failure, and it is at upload.
OnlyUploadOfFails(k) ==
    /\ FailedAtUpload(k)
    /\ \A m \in 1..Len(projects) :
         m # k => (HasCall(m, "start", "ok") /\ AllRemoteOk(m))

\* C3: in a finished run over N projects where only project k (1 < k < N)
\* fails, at the upload step (authorize, get-upload-url or put), every other
\* project gets a completed status write and project k gets a failed status
\* write whose error field names the upload failure.
C3_UploadFailureIsolated ==
    pc = "done" =>
        \A k \in 2..(Len(projects) - 1) :
            OnlyUploadOfFails(k) =>
                /\ \A m \in 1..Len(projects) :
                     m # k =>
                        /\ Len(ItemWrites(m)) = 1
                        /\ ItemWrites(m)[1].data.status = "completed"
                /\ Len(ItemWrites(k)) = 1
                /\ ItemWrites(k)[1].data.status = "failed"
                /\ "error" \in DOMAIN ItemWrites(k)[1].data
                /\ ItemWrites(k)[1].data.error = "Upload to Backblaze failed"

\* Three projects, the put of the middle one failed, the run is over.
C3_Witness ==
    /\ pc = "done"
    /\ Len(projects) = 3
    /\ OnlyUploadOfFails(2)
    /\ HasCall(2, "put", "fail")
    /\ HasCall(3, "update", "ok")

-----------------------------------------------------------------------------
(* C4 *)

\* C4: a project whose originalImageUrl is empty or absent makes no call at
\* all (no source fetch, no inference call, no storage call, no upload) and
\* ends with one failed status write carrying "No image URL found".
C4_EmptyUrlFailsWithoutCalls ==
    \A k \in 1..Len(projects) :
        ("originalImageUrl" \notin DOMAIN projects[k]
            \/ projects[k].originalImageUrl = "") =>
            /\ \A j \in 1..Len(calls) :
                 calls[j].item = k => calls[j].op \in {"start", "update"}
            /\ ItemUploads(k) = <<>>
            /\ \A j \in 1..Len(writes) :
                 writes[j].item = k => writes[j].data.status = "failed"
            /\ Finished(k) =>
                 /\ Len(ItemWrites(k)) = 1
                 /\ "error" \in DOMAIN ItemWrites(k)[1].data
                 /\ ItemWrites(k)[1].data.error = "No image URL found"

\* The run handled a project without the field and one with an empty field.
C4_Witness ==
    /\ pc = "done"
    /\ \E k, m \in 1..Len(projects) :
         /\ "originalImageUrl" \notin DOMAIN projects[k]
         /\ "originalImageUrl" \in DOMAIN projects[m]
         /\ projects[m].originalImageUrl = ""
         /\ Len(ItemWrites(k)) = 1
         /\ Len(ItemWrites(m)) = 1

-----------------------------------------------------------------------------
(* C5 *)

\* C5: a completed status write carries the retrieval locator of the
\* project's upload and a layersCount equal to the number of layers of the
\* uploaded manifest (3 for the two detections cat and dog).
C5_LayersCountIsManifestSize ==
    \A j \in 1..Len(writes) :
        writes[j].data.status = "completed" =>
            LET u == ItemUploads(writes[j].item)
            IN /\ Len(u) = 1
               /\ writes[j].data.layerUrls = <<u[1].url>>
               /\ writes[j].data.layersCount = Len(u[1].content.layers)

-----------------------------------------------------------------------------
(* C6 and C7, checked under SpecLayers *)

\* C6: the layers start with exactly one background layer; then comes one
\* object layer per input entry, in input order, for the first 10 entries
\* only (more than 10 entries give exactly 11 layers); an entry that is no
\* record, or lacks label / score, gets "Object" / 0.
C6_LayerSynthesis ==
    pc = "layers_done" =>
        /\ Len(layers) >= 1
        /\ layers[1] = [name |-> "Background", type |-> "background"]
        /\ \A k \in 2..Len(layers) : layers[k].type = "object"
        /\ Len(layers) <= 11
        /\ objects.tag = "list" =>
             LET n == Len(objects.items)
             IN /\ Len(layers) = 1 + (IF n > 10 THEN 10 ELSE n)
                /\ n > 10 => Len(layers) = 11
                /\ \A k \in 1..(Len(layers) - 1) :
                     LET e == objects.items[k]
                     IN /\ layers[k + 1].name =
                             "Layer " \o NumStr[k] \o " - " \o
                             (IF e.isdict /\ "label" \in DOMAIN e.d
                              THEN e.d.label ELSE "Object")
                        /\ layers[k + 1].confidence =
                             (IF e.isdict /\ "score" \in DOMAIN e.d
                              THEN e.d.score ELSE 0)

\* Eleven mixed entries went in, eleven layers came out.
C6_Witness ==
    /\ pc = "layers_done"
    /\ objects.tag = "list"
    /\ Len(objects.items) = 11
    /\ \E k \in 1..10 : ~objects.items[k].isdict
    /\ \E k \in 1..10 : objects.items[k].isdict /\ "label" \notin DOMAIN objects.items[k].d
    /\ Len(layers) = 11

\* Detection inputs the claim calls empty or malformed
NotAList == objects.tag \in {"none", "other"}

EmptyList == objects.tag = "list" /\ objects.items = <<>>

NonRecordList ==
    /\ objects.tag = "list"
    /\ objects.items # <<>>
    /\ \A k \in 1..Len(objects.items) : ~objects.items[k].isdict

\* C7 as stated: for None, an empty list, a non-list value or a list whose
\* entries are not structured records, synthesis returns exactly the
\* background layer.
C7_MalformedGivesBackgroundOnly ==
    (pc = "layers_done" /\ (NotAList \/ EmptyList \/ NonRecordList)) =>
        layers = <<[name |-> "Background", type |-> "background"]>>

\* C7 as amended: None, an empty list and a non-list value give exactly the
\* background layer; a non-empty list of entries that are not structured
\* records gives the background layer followed by one object layer per entry
\* (at most 10), each labelled "Object" with confidence 0.
C7_EmptyOrNonListGivesBackgroundOnly ==
    pc = "layers_done" =>
        /\ (NotAList \/ EmptyList) =>
             layers = <<[name |-> "Background", type |-> "background"]>>
        /\ NonRecordList =>
             /\ layers[1] = [name |-> "Background", type |-> "background"]
             /\ Len(layers) =
                  1 + (IF Len(objects.items) > 10 THEN 10 ELSE Len(objects.items))
             /\ \A k \in 2..Len(layers) :
                  layers[k] = [name |-> "Layer " \o NumStr[k - 1] \o " - Object",
                               type |-> "object", confidence |-> 0]

\* An error object (a truthy non-list) was synthesized to the background alone.
C7_Witness ==
    /\ pc = "layers_done"
    /\ objects.tag = "other"
    /\ objects.truthy
    /\ Len(layers) = 1

-----------------------------------------------------------------------------
(* C8 *)

\* Background removal of project k returned bytes and its detection call
\* failed: the fetch inside detect_objects (the item's 4th call) or the post.
DetectionFailed(k) ==
    LET ic == ItemCalls(k)
    IN /\ \E n \in 1..Len(ic) : ic[n].op = "remove_background" /\ ic[n].res = "ok"
       /\ \/ Len(ic) >= 4 /\ ic[4].op = "fetch" /\ ic[4].res = "fail"
          \/ \E n \in 1..Len(ic) : ic[n].op = "detect_objects" /\ ic[n].res = "fail"

\* C8: a failed detection after a successful background removal is not fatal:
\* the project goes on to synthesis and upload with no objects, its manifest
\* is the background alone, a successful upload ends in a completed status
\* write, and a failed status is only ever written for an upload failure.
C8_DetectionFailureNonFatal ==
    \A k \in 1..Len(projects) :
        DetectionFailed(k) =>
            /\ (k = i /\ ~Finished(k)) => pc \in {"layers", "upload", "update", "except"}
            /\ (Finished(k) \/ pc \in {"upload", "update", "except"}) =>
                 HasCall(k, "create_layers", "ok")
            /\ (Finished(k) \/ pc \in {"update", "except"}) => HasOp(k, "authorize")
            /\ (k = i /\ pc = "except") => err = "Upload to Backblaze failed"
            /\ \A a \in 1..Len(uploads) :
                 uploads[a].item = k =>
                    uploads[a].content.layers =
                        <<[name |-> "Background", type |-> "background"]>>
            /\ Finished(k) =>
                 /\ Len(ItemWrites(k)) = 1
                 /\ IF HasCall(k, "put", "ok")
                    THEN ItemWrites(k)[1].data.status = "completed"
                    ELSE /\ ItemWrites(k)[1].data.status = "failed"
                         /\ ItemWrites(k)[1].data.error = "Upload to Backblaze failed"

\* A project whose detection post failed was uploaded and written completed.
C8_Witness ==
    \E k \in 1..Len(projects) :
        /\ Finished(k)
        /\ HasCall(k, "detect_objects", "fail")
        /\ HasCall(k, "put", "ok")
        /\ Len(ItemWrites(k)) = 1
        /\ ItemWrites(k)[1].data.status = "completed"
        /\ ItemWrites(k)[1].ok

-----------------------------------------------------------------------------
(* C9 *)

\* The background removal of project k failed: its source fetch (the item's
\* 2nd call) or the post raised, or the response had no bytes.
BgFailed(k) ==
    LET ic == ItemCalls(k)
    IN \/ Len(ic) >= 2 /\ ic[2].op = "fetch" /\ ic[2].res = "fail"
       \/ \E n \in 1..Len(ic) :
              ic[n].op = "remove_background" /\ ic[n].res \in {"fail", "empty"}

\* C9: a failed background removal is fatal to the project: it goes straight
\* to the failed status write carrying "Background removal failed"; no
\* detection call (nor its fetch), no synthesis, no storage call, no upload
\* and no completed status write happens for it.
C9_BgFailureFatal ==
    \A k \in 1..Len(projects) :
        BgFailed(k) =>
            /\ (k = i /\ ~Finished(k)) => (pc = "except" /\ err = "Background removal failed")
            /\ \A j \in 1..Len(calls) :
                 calls[j].item = k =>
                    calls[j].op \in {"start", "fetch", "remove_background", "update"}
            /\ Cardinality({j \in 1..Len(calls) :
                              calls[j].item = k /\ calls[j].op = "fetch"}) = 1
            /\ ItemUploads(k) = <<>>
            /\ \A j \in 1..Len(writes) :
                 writes[j].item = k =>
                    /\ writes[j].data.status = "failed"
                    /\ writes[j].data.error = "Background removal failed"
            /\ Finished(k) => Len(ItemWrites(k)) = 1

\* A project whose background removal answered without bytes was written failed.
C9_Witness ==
    \E k \in 1..Len(projects) :
        /\ Finished(k)
        /\ HasCall(k, "remove_background", "empty")
        /\ Len(ItemWrites(k)) = 1
        /\ ItemWrites(k)[1].ok

-----------------------------------------------------------------------------
(* C10 *)

OwnerOf(p) == IF "userId" \in DOMAIN p THEN p.userId ELSE "unknown"

ItemOf(p) == IF "projectId" \in DOMAIN p THEN p.projectId ELSE "unknown"

\* C10: every upload goes to layers/{ownerId}/{itemId}/layers.json and
\* returns https://f000.backblazeb2.com/file/<bucketId>/<fileName>; two
\* uploads for the same owner id and item id use the same file name and
\* return the same locator whatever their manifests hold, and the bucket
\* keeps one object under that name, the last one written.
C10_UploadIdempotent ==
    /\ \A a \in 1..Len(uploads) :
         LET p == projects[uploads[a].item]
         IN /\ uploads[a].file_name =
                 "layers/" \o OwnerOf(p) \o "/" \o ItemOf(p) \o "/layers.json"
            /\ uploads[a].url =
                 "https://f000.backblazeb2.com/file/" \o B2_BUCKET_ID \o "/"
                 \o "layers/" \o OwnerOf(p) \o "/" \o ItemOf(p) \o "/layers.json"
    /\ \A a, b \in 1..Len(uploads) :
         (/\ OwnerOf(projects[uploads[a].item]) = OwnerOf(projects[uploads[b].item])
          /\ ItemOf(projects[uploads[a].item]) = ItemOf(projects[uploads[b].item])) =>
            /\ uploads[a].file_name = uploads[b].file_name
            /\ uploads[a].url = uploads[b].url
    /\ DOMAIN bucket = {uploads[a].file_name : a \in 1..Len(uploads)}
    /\ \A a \in 1..Len(uploads) :
         (\A c \in (a + 1)..Len(uploads) :
             uploads[c].file_name # uploads[a].file_name) =>
            bucket[uploads[a].file_name] = uploads[a].content

\* Two uploads for the same owner and item ids, with different manifests.
C10_Witness ==
    \E a, b \in 1..Len(uploads) :
        /\ a < b
        /\ OwnerOf(projects[uploads[a].item]) = OwnerOf(projects[uploads[b].item])
        /\ ItemOf(projects[uploads[a].item]) = ItemOf(projects[uploads[b].item])
        /\ uploads[a].content # uploads[b].content
        /\ uploads[a].url = uploads[b].url

-----------------------------------------------------------------------------
(* C11 *)

\* A call entry of the loop, as opposed to the startup, the listing and the
\* entries of other clients.
LoopCalls == {j \in 1..Len(calls) : calls[j].item # 0}

\* C11: when the listing succeeds and finds no project in processing, the
\* process exits with code 0 and has made no status write, no inference call
\* and no storage call: the call history holds the startup and the listing
\* and nothing else.
C11_NoItemsExitsZero ==
    (HasCall(0, "list", "ok") /\ projects = <<>>) =>
        /\ pc = "exit"
        /\ exitCode = 0
        /\ writes = <<>>
        /\ uploads = <<>>
        /\ bucket = NoDict
        /\ LoopCalls = {}
        /\ \A j \in 1..Len(calls) : calls[j].op \in {"startup", "list"}

\* The listing answered and was empty; the process has exited with 0.
C11_Witness ==
    /\ HasCall(0, "list", "ok")
    /\ projects = <<>>
    /\ pc = "exit"
    /\ exitCode = 0

-----------------------------------------------------------------------------
(* C12 *)

\* C12: the process exits non-zero only after a configuration error at
\* startup or a failed listing, and then no project was listed, processed or
\* written; each of the two does abort the run with exit code 1. Once the
\* listing has succeeded no error changes the exit code: the run ends with
\* exit code 0 whether the projects completed or failed.
C12_RunAbortPolicy ==
    /\ exitCode \in {-1, 0, 1}
    /\ exitCode = 1 =>
         /\ pc = "exit"
         /\ HasCall(0, "startup", "fail") \/ HasCall(0, "list", "fail")
         /\ projects = <<>>
         /\ writes = <<>>
         /\ uploads = <<>>
         /\ LoopCalls = {}
    /\ HasCall(0, "startup", "fail") =>
         /\ pc = "exit"
         /\ exitCode = 1
         /\ ~HasOp(0, "list")
    /\ HasCall(0, "list", "fail") => (pc = "exit" /\ exitCode = 1)
    /\ HasCall(0, "list", "ok") =>
         /\ exitCode # 1
         /\ RunEnded <=> exitCode = 0
         /\ pc # "exit" \/ projects = <<>>

\* The run ended with exit code 0 although every one of at least two
\* projects failed, one of them on a failing remote call.
C12_Witness ==
    /\ pc = "done"
    /\ exitCode = 0
    /\ Len(projects) >= 2
    /\ \A k \in 1..Len(projects) :
         /\ Len(ItemWrites(k)) = 1
         /\ ItemWrites(k)[1].data.status = "failed"
    /\ \E k \in 1..Len(projects) : HasCall(k, "remove_background", "fail")

-----------------------------------------------------------------------------
(* C13 *)

\* C13: every status write sets completed or failed, and a write that takes
\* effect found its record still in processing: a record that was completed,
\* failed or queued when the write arrived is not overwritten.
C13_WritesOnlyOverProcessing ==
    \A j \in 1..Len(writes) :
        /\ writes[j].data.status \in {"completed", "failed"}
        /\ writes[j].ok => writes[j].before = "processing"

-----------------------------------------------------------------------------
(* C14 *)

ProtocolOrder == <<"authorize", "get_upload_url", "put">>

\* The storage requests made for project k, in the order they were made.
UploadCallsOf(k) == SelectSeq(calls, LAMBDA c : c.item = k /\ c.op \in UploadOps)

\* C14: the storage requests of one project are authorize, get-upload-url
\* and put, in that order and at most once each; a request is made only when
\* all before it succeeded, so a failing one is the last, and then the
\* project is finalized as failed with nothing uploaded. No authorization is
\* carried from one project to the next: the requests of every project that
\* reaches the upload begin with its own authorize.
C14_StorageProtocolOrder ==
    \A k \in 1..Len(projects) :
        LET uc == UploadCallsOf(k)
        IN /\ Len(uc) <= 3
           /\ \A n \in 1..Len(uc) : uc[n].op = ProtocolOrder[n]
           /\ \A n \in 1..(Len(uc) - 1) : uc[n].res = "ok"
           /\ (uc # <<>> /\ uc[Len(uc)].res = "ok") => Len(uc) = 3
           /\ (Finished(k) /\ uc # <<>> /\ uc[Len(uc)].res # "ok") =>
                /\ Len(ItemWrites(k)) = 1
                /\ ItemWrites(k)[1].data.status = "failed"
                /\ ItemUploads(k) = <<>>
           /\ ItemUploads(k) # <<>> => (Len(uc) = 3 /\ uc[3].res = "ok")

\* A project whose get-upload-url failed after its authorize was finalized
\* as failed without a put, and a later project made all three requests,
\* its own authorize first.
C14_Witness ==
    \E k, m \in 1..Len(projects) :
        /\ k < m
        /\ Len(UploadCallsOf(k)) = 2
        /\ UploadCallsOf(k)[2].res = "fail"
        /\ Len(ItemWrites(k)) = 1
        /\ ItemWrites(k)[1].data.status = "failed"
        /\ Len(UploadCallsOf(m)) = 3
        /\ UploadCallsOf(m)[1].op = "authorize"
        /\ UploadCallsOf(m)[3].res = "ok"

-----------------------------------------------------------------------------
(* C15 *)

\* The calls of the loop in the order they were made.
LoopSeq == SelectSeq(calls, LAMBDA c : c.item # 0)

\* The fields of the k-th listed project are those of the k-th document of
\* the collection (the status apart, which the run and other clients write).
ListedInOrder(k) ==
    /\ DocIds[k] \in DOMAIN store
    /\ \A f \in DOMAIN projects[k] \ {"status"} :
         f \in DOMAIN store[DocIds[k]] /\ store[DocIds[k]][f] = projects[k][f]

\* C15: the projects are processed one after another in listing order. The
\* calls of the loop begin with the first project; every call that is not a
\* status write is followed by a call of the same project, every status
\* write by the first call of the next project, and the n-th status write
\* is that of the n-th listed project.
C15_StrictlySequential ==
    LET ls == LoopSeq
    IN /\ ls # <<>> => (ls[1].item = 1 /\ ls[1].op = "start")
       /\ \A n \in 1..(Len(ls) - 1) :
            IF ls[n].op = "update"
            THEN ls[n + 1].item = ls[n].item + 1 /\ ls[n + 1].op = "start"
            ELSE ls[n + 1].item = ls[n].item /\ ls[n + 1].op # "start"
       /\ \A n \in 1..Len(ls) : ls[n].item \in 1..Len(projects) /\ ls[n].item <= i
       /\ \A j \in 1..Len(writes) :
            /\ writes[j].item = j
            /\ writes[j].doc = project_id(projects[j])
       /\ \A k \in 1..Len(projects) : ListedInOrder(k)

\* Three projects were processed, the second of them failing on a remote
\* call, and the run has ended.
C15_Witness ==
    /\ pc = "done"
    /\ Len(projects) = 3
    /\ Len(writes) = 3
    /\ writes[2].data.status = "failed"
    /\ HasCall(2, "put", "fail")
    /\ writes[3].data.status = "completed"

-----------------------------------------------------------------------------
(* C16 *)

\* A remote call made for project k timed out (a timeout is one of the ways
\* a call fails: requests raises, the helper catches).
SomeTimeout(k) ==
    \E j \in 1..Len(calls) :
        calls[j].item = k /\ calls[j].op \in RemoteOps /\ calls[j].res = "fail"

\* The timeout hit background removal (its fetch of the source or its call)
\* or one of the three storage requests.
FatalTimeout(k) ==
    LET ic == ItemCalls(k)
    IN \E n \in 1..Len(ic) :
           /\ ic[n].res = "fail"
           /\ \/ ic[n].op = "remove_background"
              \/ ic[n].op = "fetch" /\ n = 2
              \/ ic[n].op \in UploadOps

\* C16 as stated: a timeout of any remote call of a project, detection and
\* its fetch of the source included, ends in the failed status for that
\* project.
C16_AnyTimeoutIsFatal ==
    \A k \in 1..Len(projects) :
        (Finished(k) /\ SomeTimeout(k)) =>
            /\ Len(ItemWrites(k)) = 1
            /\ ItemWrites(k)[1].data.status = "failed"

\* C16 as amended: a timeout in background removal (the fetch of the source
\* or the removal call) or in a storage request (authorize, get-upload-url,
\* put) is fatal to that project and to it alone: it is finalized as failed
\* with an error message and the loop goes on to the next project. A timeout
\* in object detection (its fetch of the source or the detection call) is
\* not fatal even to its project, which is finalized as completed unless a
\* storage request fails.
C16_TimeoutFatalExceptDetection ==
    \A k \in 1..Len(projects) :
        Finished(k) =>
            LET ws == ItemWrites(k)
                fatal == FatalTimeout(k)
            IN
            /\ fatal =>
                 /\ Len(ws) = 1
                 /\ ws[1].data.status = "failed"
                 /\ Get(ws[1].data, "error", "") # ""
            /\ (~fatal /\ DetectionFailed(k)) =>
                 /\ Len(ws) = 1
                 /\ ws[1].data.status = "completed"
            /\ k < Len(projects) =>
                 Attempted(k + 1) \/ (pc = "start" /\ i = k + 1)
            /\ pc = "done" => \A m \in 1..Len(projects) : Len(ItemWrites(m)) = 1

\* The get-upload-url request of the first project timed out: the project
\* was finalized as failed, and the project after it was completed.
C16_Witness ==
    /\ pc = "done"
    /\ Len(projects) >= 2
    /\ HasCall(1, "get_upload_url", "fail")
    /\ ItemWrites(1)[1].data.status = "failed"
    /\ ItemWrites(2)[1].data.status = "completed"
    /\ ItemWrites(2)[1].ok

-----------------------------------------------------------------------------
(* C17 *)

\* How many times op was called for project k (k = 0: outside the loop).
Count(k, op) ==
    Cardinality({j \in 1..Len(calls) : calls[j].item = k /\ calls[j].op = op})

OncePerItem ==
    {"start", "remove_background", "detect_objects", "create_layers",
     "authorize", "get_upload_url", "put", "update"}

\* C17: one pass, no retry. The listing is read once; every project is
\* visited at most once, and exactly once by the time the loop has left it;
\* for each project there is at most one background-removal call, one
\* detection call, one authorize, one get-upload-url, one put and one status
\* write, failed calls included; and when every project has been visited
\* the run is over: no step of the script is left to take. (The source is
\* fetched up to twice per project, once by each inference function; the
\* call history, which grows with every step of the run, stays within ten
\* calls a project.)
C17_SinglePassNoRetry ==
    /\ Count(0, "list") <= 1
    /\ Len(calls) <= 2 + Count(0, "foreign") + 10 * Len(projects)
    /\ pc \in {"start", "rmbg", "detect", "layers", "upload", "update",
               "except", "done"} => Count(0, "list") = 1
    /\ \A k \in 1..Len(projects) :
         LET ic == ItemCalls(k)
             ops == {ic[n].op : n \in 1..Len(ic)}
             fetches == {n \in 1..Len(ic) : ic[n].op = "fetch"}
         IN /\ ops \subseteq OncePerItem \cup {"fetch"}
            \* no call of OncePerItem twice: as many calls as distinct ones
            /\ Len(ic) - Cardinality(fetches) = Cardinality(ops \ {"fetch"})
            /\ Cardinality(fetches) <= 2
            /\ Len(ItemWrites(k)) <= 1
            /\ Len(ItemUploads(k)) <= 1
            /\ Finished(k) =>
                 /\ {"start", "update"} \subseteq ops
                 /\ Len(ItemWrites(k)) = 1
    /\ pc = "done" => (i = Len(projects) /\ Len(writes) = Len(projects))
    /\ RunEnded => ~ENABLED Next

\* The run is over after three projects; the background removal of one of
\* them failed and was called once.
C17_Witness ==
    /\ pc = "done"
    /\ Len(projects) = 3
    /\ Count(0, "list") = 1
    /\ \E k \in 1..3 :
         /\ HasCall(k, "remove_background", "fail")
         /\ Count(k, "remove_background") = 1
         /\ Count(k, "update") = 1

-----------------------------------------------------------------------------
(* C18 *)

ResultFields == {"layerUrls", "layersCount", "completedAt"}

\* C18: a completed status write is issued only for a project whose
\* background removal returned the image and whose put returned
\* successfully, and its layerUrls is the list of exactly one locator, the
\* one that upload returned; a failed status write carries an error message
\* and none of layerUrls, layersCount and completedAt.
C18_StatusWriteContents ==
    \A j \in 1..Len(writes) :
        LET w == writes[j]
            ups == ItemUploads(w.item)
        IN /\ w.data.status = "completed" =>
                /\ HasCall(w.item, "remove_background", "ok")
                /\ HasCall(w.item, "put", "ok")
                /\ Len(ups) = 1
                /\ ResultFields \subseteq DOMAIN w.data
                /\ w.data.layerUrls = <<ups[1].url>>
                /\ ups[1].url = download_url(ups[1].file_name)
                /\ "error" \notin DOMAIN w.data
           /\ w.data.status = "failed" =>
                /\ "error" \in DOMAIN w.data
                /\ w.data.error \in {ErrNoUrl, ErrBg, ErrUpload}
                /\ w.data.error # ""
                /\ ResultFields \cap DOMAIN w.data = {}
                /\ ups = <<>>

\* One run wrote completed with the locator of the upload for one project
\* and failed with the upload error for another.
C18_Witness ==
    \E a, b \in 1..Len(writes) :
        /\ writes[a].data.status = "completed"
        /\ writes[a].data.layerUrls = <<ItemUploads(writes[a].item)[1].url>>
        /\ writes[b].data.status = "failed"
        /\ writes[b].data.error = ErrUpload
        /\ "layerUrls" \notin DOMAIN writes[b].data

-----------------------------------------------------------------------------
(* C19 *)

\* C19: processing a listed project touches nothing of another project.
\* Every status write of project k is addressed to the k-th listed record,
\* its own; no two projects upload to the same file name, and the manifest
\* a finished project uploaded is still the object under its file name.
\* This is claimed of every listed record, those without projectId or
\* userId included.
C19_OwnRecordAndPathOnly ==
    /\ \A j \in 1..Len(writes) : writes[j].doc = DocIds[writes[j].item]
    /\ \A a, b \in 1..Len(uploads) :
         uploads[a].item # uploads[b].item =>
            uploads[a].file_name # uploads[b].file_name
    /\ \A a \in 1..Len(uploads) :
         /\ uploads[a].file_name \in DOMAIN bucket
         /\ bucket[uploads[a].file_name] = uploads[a].content

====
